---- MODULE Spec2Model ----
(***************************************************************************)
(* The contact directory of hw_web14_fastapi_doc_test: the repository      *)
(* functions of src/repository/contacts.py and src/repository/birthday.py  *)
(* over one table of contacts, and the routes of src/routes/contacts.py    *)
(* and src/routes/birthday.py that call them.                              *)
(*                                                                         *)
(* Spec     : requests are served one at a time, each route handler from   *)
(*            its validation to its response.                              *)
(* SpecConc : two sessions run update_contact, delete_contact and          *)
(*            delete_all_contact concurrently; a handler is split at the   *)
(*            await between its SELECT and its commit.                     *)
(***************************************************************************)
EXTENDS Integers, Sequences, FiniteSets, TLC

VARIABLES store, nextId, last, sess

vars == <<store, nextId, last, sess>>

\* At most MaxContacts rows are ever inserted (the cap on the id sequence).
MaxContacts == 2

\* The same cap where two sessions interleave.
MaxConcContacts == 1

\* ------------------------------------------------------------------ users
Users == {"ordinary", "moderator", "admin"}

\* Each modelled user's role is the role of the same name.
role(u) == u

\* routes/contacts.py:13  RoleAccess([Role.admin, Role.moderator])
access_to_route_all_open == {"admin", "moderator", "ordinary"}

access_to_route_all == {"admin", "moderator"}

\* services/roles.py is not among the sources: a request passes the
\* dependency exactly when the caller's role is one of the allowed roles.
RoleAccess(allowed, u) == role(u) \in allowed

\* ------------------------------------------------------------------ dates
\* datetime.date as its proleptic Gregorian ordinal, as date.toordinal().
IsLeap(y) == (y % 4 = 0) /\ ((y % 100 # 0) \/ (y % 400 = 0))

DaysInMonth(y, m) ==
    IF m = 2 THEN (IF IsLeap(y) THEN 29 ELSE 28)
    ELSE IF m \in {4, 6, 9, 11} THEN 30 ELSE 31

RECURSIVE DaysBeforeMonth(_, _)
DaysBeforeMonth(y, m) ==
    IF m = 1 THEN 0 ELSE DaysBeforeMonth(y, m - 1) + DaysInMonth(y, m - 1)

DaysBeforeYear(y) ==
    (y - 1) * 365 + ((y - 1) \div 4) - ((y - 1) \div 100) + ((y - 1) \div 400)

Ordinal(y, m, d) == DaysBeforeYear(y) + DaysBeforeMonth(y, m) + d

\* The values datetime.now().date() takes in the model.
Todays == {Ordinal(2026, 12, 27)}

\* ------------------------------------------------------------------ inputs
\* first_name stands for the text fields of a contact; update_contact assigns
\* each of them from the body in the same way (contacts.py:105-113).
Names == {"Ann", "Bob"}

Birthdays == {Ordinal(1990, 1, 3), Ordinal(2026, 12, 30)}

Bodies == [first_name : Names, birthday : Birthdays]

\* Path identifiers a request may carry (0 fails Path(ge = 1)).
ContactIds == 0..MaxContacts

Limits == {9, 10}

Offsets == {0, 1}

UpcomingDays == {0, 10}

None == [id |-> 0]

\* The id column takes the next value of its sequence at each INSERT; the
\* table definition (entity/models.py) is not among the sources.
NextVal(seq) == seq + 1

\* ------------------------------------------------------------------ queries
Min(a, b) == IF a < b THEN a ELSE b

\* .offset(offset).limit(limit) on the rows a SELECT yields, in table order.
OffsetLimit(rows, offset, limit) ==
    SubSeq(rows, offset + 1, Min(offset + limit, Len(rows)))

\* Result.scalar_one_or_none()
scalar_one_or_none(rows) == IF Len(rows) = 0 THEN None ELSE rows[1]

\* Result.scalars().all(): the rows left in the result, and the result left
\* exhausted.
scalars_all(result) == [rows |-> result, rest |-> <<>>]

Contact(body, u, id) ==
    [id |-> id, user |-> u, first_name |-> body.first_name,
     birthday |-> body.birthday]

\* ------------------------------------------------------------------ repository/contacts.py
\* get_contacts with the owner filter left out.
get_contacts_unscoped(limit, offset, db, current_user) ==
    OffsetLimit(db, offset, limit)

\* select(Contact).filter_by(user = current_user).offset(offset).limit(limit)
get_contacts(limit, offset, db, current_user) ==
    OffsetLimit(SelectSeq(db, LAMBDA c : c.user = current_user), offset, limit)

\* select(Contact).offset(offset).limit(limit)
get_all_contacts(limit, offset, db, current_user) ==
    OffsetLimit(db, offset, limit)

\* get_contact with the owner filter left out.
get_contact_any_owner(contact_id, db, current_user) ==
    scalar_one_or_none(SelectSeq(db, LAMBDA c : c.id = contact_id))

\* select(Contact).filter_by(id = contact_id, user = current_user)
get_contact(contact_id, db, current_user) ==
    scalar_one_or_none(
        SelectSeq(db, LAMBDA c : c.id = contact_id /\ c.user = current_user))

HasRow(db, id) == \E i \in DOMAIN db : db[i].id = id

RowOf(db, id) == db[CHOOSE i \in DOMAIN db : db[i].id = id]

\* create_contact losing the submitted birthday.
create_contact_commit_no_birthday(body, db, seq, current_user) ==
    Append(db, [Contact(body, current_user, seq) EXCEPT !.birthday = 0])

\* create_contact storing a fixed owner instead of the caller.
create_contact_commit_fixed_owner(body, db, seq, current_user) ==
    Append(db, Contact(body, "admin", seq))

\* db.add(contact); await db.commit(): the INSERT, the row taking the next
\* value of the id sequence.
create_contact_commit(body, db, seq, current_user) ==
    Append(db, Contact(body, current_user, seq))

\* await db.refresh(contact): the row re-read by primary key; it raises when
\* the row is gone.
refresh(db, id) == IF HasRow(db, id) THEN RowOf(db, id) ELSE None

create_contact(body, db, seq, current_user) ==
    LET db2 == create_contact_commit(body, db, seq, current_user)
    IN  [db |-> db2, ret |-> refresh(db2, seq)]

\* update_contact looking the row up by id alone.
update_contact_select_any_owner(contact_id, db, current_user) ==
    scalar_one_or_none(SelectSeq(db, LAMBDA c : c.id = contact_id))

update_contact_select(contact_id, db, current_user) ==
    scalar_one_or_none(
        SelectSeq(db, LAMBDA c : c.id = contact_id /\ c.user = current_user))

\* contact.<field> = body.<field>, on the object the session holds
update_contact_assign(contact, body) ==
    [contact EXCEPT !.first_name = body.first_name,
                    !.birthday = body.birthday]

\* await db.commit() after the assignments: UPDATE ... WHERE id = contact.id
\* writes the assigned columns; a row that is gone is not written.
update_contact_commit(db, contact) ==
    [i \in DOMAIN db |->
        IF db[i].id = contact.id
        THEN [db[i] EXCEPT !.first_name = contact.first_name,
                           !.birthday = contact.birthday]
        ELSE db[i]]

update_contact(contact_id, body, db, current_user) ==
    LET contact == update_contact_select(contact_id, db, current_user)
    IN  IF contact = None
        THEN [db |-> db, ret |-> None]
        ELSE LET db2 == update_contact_commit(
                            db, update_contact_assign(contact, body))
             IN  [db |-> db2, ret |-> refresh(db2, contact.id)]

delete_contact_select(contact_id, db, current_user) ==
    scalar_one_or_none(
        SelectSeq(db, LAMBDA c : c.id = contact_id /\ c.user = current_user))

\* await db.delete(contact); await db.commit(): DELETE ... WHERE id = contact.id
delete_commit(db, contact) == SelectSeq(db, LAMBDA c : c.id # contact.id)

delete_contact(contact_id, db, current_user) ==
    LET contact == delete_contact_select(contact_id, db, current_user)
    IN  IF contact = None
        THEN [db |-> db, ret |-> None]
        ELSE [db |-> delete_commit(db, contact), ret |-> contact]

\* select(Contact).filter_by(id = contact_id)
delete_all_contact_select(contact_id, db, current_user) ==
    scalar_one_or_none(SelectSeq(db, LAMBDA c : c.id = contact_id))

delete_all_contact(contact_id, db, current_user) ==
    LET contact == delete_all_contact_select(contact_id, db, current_user)
    IN  IF contact = None
        THEN [db |-> db, ret |-> None]
        ELSE [db |-> delete_commit(db, contact), ret |-> contact]

\* ------------------------------------------------------------------ repository/birthday.py
\* select(Contact).filter(Contact.birthday.between(current_date, future_date))
\*     .filter_by(user = current_user).offset(offset).limit(limit)
upcoming_birthday_select(upcoming_days, limit, offset, db, current_user, today) ==
    LET current_date == today
        future_date  == current_date + upcoming_days
    IN  OffsetLimit(
            SelectSeq(
                SelectSeq(db, LAMBDA c : /\ current_date <= c.birthday
                                         /\ c.birthday <= future_date),
                LAMBDA c : c.user = current_user),
            offset, limit)

\* qqqq = contacts.scalars().all(); return contacts.scalars().all()
get_contact_with_upcoming_birthday(upcoming_days, limit, offset, db, current_user, today) ==
    LET contacts == upcoming_birthday_select(
                        upcoming_days, limit, offset, db, current_user, today)
        qqqq     == scalars_all(contacts)
    IN  scalars_all(qqqq.rest).rows

\* ------------------------------------------------------------------ routes
\* What a request was answered with: the HTTP status, what the repository
\* function returned ("not_called" when the handler was never entered) and
\* the rows of the response.
Response(req, status, ret, body) ==
    [req |-> req, status |-> status, ret |-> ret, body |-> body]

\* Query(10, ge = 10, le = 200) and Query(0, ge = 0)
PageOk(limit, offset) == limit >= 10 /\ limit <= 200 /\ offset >= 0

\* Path(ge = 1)
PathOk(contact_id) == contact_id >= 1

\* Query(default = 7, ge = 1, le = 365)
DaysOk(upcoming_days) == upcoming_days >= 1 /\ upcoming_days <= 365

RetOf(contact) == IF contact = None THEN "None" ELSE "contact"

\* GET /contracts/
route_get_contracts(u, limit, offset) ==
    LET req == [op |-> "get_contracts", user |-> u, limit |-> limit,
                offset |-> offset]
    IN  /\ last' = IF ~PageOk(limit, offset)
                   THEN Response(req, 422, "not_called", <<>>)
                   ELSE Response(req, 200, "list",
                                 get_contacts(limit, offset, store, u))
        /\ UNCHANGED <<store, nextId, sess>>

\* GET /contracts/all
route_get_all_contracts(u, limit, offset) ==
    LET req == [op |-> "get_all_contracts", user |-> u, limit |-> limit,
                offset |-> offset]
    IN  /\ last' = IF ~RoleAccess(access_to_route_all, u)
                   THEN Response(req, 403, "not_called", <<>>)
                   ELSE IF ~PageOk(limit, offset)
                   THEN Response(req, 422, "not_called", <<>>)
                   ELSE Response(req, 200, "list",
                                 get_all_contacts(limit, offset, store, u))
        /\ UNCHANGED <<store, nextId, sess>>

\* GET /contracts/{contact_id}
route_get_contact(u, contact_id) ==
    LET req == [op |-> "get_contact", user |-> u, id |-> contact_id]
        contact == get_contact(contact_id, store, u)
    IN  /\ last' = IF ~PathOk(contact_id)
                   THEN Response(req, 422, "not_called", <<>>)
                   ELSE IF contact = None
                   THEN Response(req, 404, "None", <<>>)
                   ELSE Response(req, 200, "contact", <<contact>>)
        /\ UNCHANGED <<store, nextId, sess>>

\* POST /contracts/
route_create_contact(u, body) ==
    LET req == [op |-> "create_contact", user |-> u, body |-> body]
        r   == create_contact(body, store, nextId, u)
    IN  /\ nextId <= MaxContacts
        /\ store' = r.db
        /\ nextId' = NextVal(nextId)
        /\ last' = Response(req, 201, "contact", <<r.ret>>)
        /\ UNCHANGED sess

\* PUT /contracts/{contact_id}
route_update_contact(u, contact_id, body) ==
    LET req == [op |-> "update_contact", user |-> u, id |-> contact_id]
        r   == update_contact(contact_id, body, store, u)
    IN  IF ~PathOk(contact_id)
        THEN /\ last' = Response(req, 422, "not_called", <<>>)
             /\ UNCHANGED <<store, nextId, sess>>
        ELSE /\ store' = r.db
             /\ last' = IF r.ret = None
                        THEN Response(req, 404, "None", <<>>)
                        ELSE Response(req, 200, "contact", <<r.ret>>)
             /\ UNCHANGED <<nextId, sess>>

\* DELETE /contracts/{contact_id}: the handler returns what the repository
\* returned, under status_code = 204.
route_delete_contact(u, contact_id) ==
    LET req == [op |-> "delete_contact", user |-> u, id |-> contact_id]
        r   == delete_contact(contact_id, store, u)
    IN  IF ~PathOk(contact_id)
        THEN /\ last' = Response(req, 422, "not_called", <<>>)
             /\ UNCHANGED <<store, nextId, sess>>
        ELSE /\ store' = r.db
             /\ last' = Response(req, 204, RetOf(r.ret), <<>>)
             /\ UNCHANGED <<nextId, sess>>

\* DELETE /contracts/all/{contact_id}
route_delete_all_contact(u, contact_id) ==
    LET req == [op |-> "delete_all_contact", user |-> u, id |-> contact_id]
        r   == delete_all_contact(contact_id, store, u)
    IN  IF ~RoleAccess(access_to_route_all, u)
        THEN /\ last' = Response(req, 403, "not_called", <<>>)
             /\ UNCHANGED <<store, nextId, sess>>
        ELSE IF ~PathOk(contact_id)
        THEN /\ last' = Response(req, 422, "not_called", <<>>)
             /\ UNCHANGED <<store, nextId, sess>>
        ELSE /\ store' = r.db
             /\ last' = Response(req, 204, RetOf(r.ret), <<>>)
             /\ UNCHANGED <<nextId, sess>>

\* GET /birthday/
route_upcoming_birthday(u, upcoming_days, limit, offset, today) ==
    LET req == [op |-> "upcoming_birthday", user |-> u,
                days |-> upcoming_days, limit |-> limit, offset |-> offset,
                today |-> today]
    IN  /\ last' = IF ~(DaysOk(upcoming_days) /\ PageOk(limit, offset))
                   THEN Response(req, 422, "not_called", <<>>)
                   ELSE Response(req, 200, "list",
                            get_contact_with_upcoming_birthday(
                                upcoming_days, limit, offset, store, u, today))
        /\ UNCHANGED <<store, nextId, sess>>

\* ------------------------------------------------------------------ requests one at a time
Idle == [pc |-> "idle"]

Sessions == {"s1", "s2"}

Init ==
    /\ store = <<>>
    /\ nextId = 1
    /\ last = Response([op |-> "none"], 0, "not_called", <<>>)
    /\ sess = [s \in Sessions |-> Idle]

GetContracts ==
    \E u \in Users, limit \in Limits, offset \in Offsets :
        route_get_contracts(u, limit, offset)

GetAllContracts ==
    \E u \in Users, limit \in Limits, offset \in Offsets :
        route_get_all_contracts(u, limit, offset)

GetContact == \E u \in Users, id \in ContactIds : route_get_contact(u, id)

CreateContact == \E u \in Users, body \in Bodies : route_create_contact(u, body)

UpdateContact ==
    \E u \in Users, id \in ContactIds, body \in Bodies :
        route_update_contact(u, id, body)

DeleteContact == \E u \in Users, id \in ContactIds : route_delete_contact(u, id)

DeleteAllContact ==
    \E u \in Users, id \in ContactIds : route_delete_all_contact(u, id)

UpcomingBirthday ==
    \E u \in Users, days \in UpcomingDays, limit \in Limits,
       offset \in Offsets, today \in Todays :
        route_upcoming_birthday(u, days, limit, offset, today)

Next ==
    \/ GetContracts
    \/ GetAllContracts
    \/ GetContact
    \/ CreateContact
    \/ UpdateContact
    \/ DeleteContact
    \/ DeleteAllContact
    \/ UpcomingBirthday

Spec == Init /\ [][Next]_vars

\* ------------------------------------------------------------------ two sessions
\* A session runs one handler at a time; between a handler's awaits the other
\* session may run.  sess[s].contact is the object the session holds.
Start(s) == sess[s] = Idle

Finish(s, response) ==
    /\ last' = response
    /\ sess' = [sess EXCEPT ![s] = Idle]

\* create_contact, to its commit (contacts.py:78-80)
conc_create_commit(s, u, body) ==
    /\ Start(s)
    /\ nextId <= MaxConcContacts
    /\ store' = create_contact_commit(body, store, nextId, u)
    /\ nextId' = NextVal(nextId)
    /\ sess' = [sess EXCEPT ![s] =
                   [pc |-> "create_refresh",
                    req |-> [op |-> "create_contact", user |-> u,
                             body |-> body],
                    contact |-> Contact(body, u, nextId)]]
    /\ UNCHANGED last

\* update_contact, to its commit (contacts.py:101-113)
conc_update_select(s, u, contact_id, body) ==
    LET req == [op |-> "update_contact", user |-> u, id |-> contact_id]
        contact == update_contact_select(contact_id, store, u)
    IN  /\ Start(s)
        /\ PathOk(contact_id)
        /\ IF contact = None
           THEN Finish(s, Response(req, 404, "None", <<>>))
           ELSE /\ sess' = [sess EXCEPT ![s] =
                               [pc |-> "update_commit", req |-> req,
                                contact |-> update_contact_assign(contact, body)]]
                /\ UNCHANGED last
        /\ UNCHANGED <<store, nextId>>

\* await db.commit() of update_contact (contacts.py:114): the UPDATE of a row
\* that is gone matches nothing and the ORM raises.
conc_update_commit(s) ==
    /\ sess[s].pc = "update_commit"
    /\ IF HasRow(store, sess[s].contact.id)
       THEN /\ store' = update_contact_commit(store, sess[s].contact)
            /\ sess' = [sess EXCEPT ![s].pc = "update_refresh"]
            /\ UNCHANGED last
       ELSE /\ Finish(s, Response(sess[s].req, 500, "raised", <<>>))
            /\ UNCHANGED store
    /\ UNCHANGED nextId

\* await db.refresh(contact) and the return, of create_contact and
\* update_contact (contacts.py:81-82, 115-116)
conc_refresh(s) ==
    LET contact == refresh(store, sess[s].contact.id)
        ok      == IF sess[s].pc = "create_refresh" THEN 201 ELSE 200
    IN  /\ sess[s].pc \in {"create_refresh", "update_refresh"}
        /\ Finish(s, IF contact = None
                     THEN Response(sess[s].req, 500, "raised", <<>>)
                     ELSE Response(sess[s].req, ok, "contact", <<contact>>))
        /\ UNCHANGED <<store, nextId>>

\* delete_contact, to its commit (contacts.py:133-137)
conc_delete_select(s, u, contact_id) ==
    LET req == [op |-> "delete_contact", user |-> u, id |-> contact_id]
        contact == delete_contact_select(contact_id, store, u)
    IN  /\ Start(s)
        /\ PathOk(contact_id)
        /\ IF contact = None
           THEN Finish(s, Response(req, 204, "None", <<>>))
           ELSE /\ sess' = [sess EXCEPT ![s] =
                               [pc |-> "delete_commit", req |-> req,
                                contact |-> contact]]
                /\ UNCHANGED last
        /\ UNCHANGED <<store, nextId>>

\* delete_all_contact, to its commit (contacts.py:156-160)
conc_delete_all_select(s, u, contact_id) ==
    LET req == [op |-> "delete_all_contact", user |-> u, id |-> contact_id]
        contact == delete_all_contact_select(contact_id, store, u)
    IN  /\ Start(s)
        /\ RoleAccess(access_to_route_all, u)
        /\ PathOk(contact_id)
        /\ IF contact = None
           THEN Finish(s, Response(req, 204, "None", <<>>))
           ELSE /\ sess' = [sess EXCEPT ![s] =
                               [pc |-> "delete_commit", req |-> req,
                                contact |-> contact]]
                /\ UNCHANGED last
        /\ UNCHANGED <<store, nextId>>

\* await db.commit() and the return, of delete_contact and delete_all_contact
\* (contacts.py:138-139, 161-162): the DELETE of a row that is gone matches
\* nothing, and the function returns the object it looked up.
conc_delete_commit(s) ==
    /\ sess[s].pc = "delete_commit"
    /\ store' = delete_commit(store, sess[s].contact)
    /\ Finish(s, Response(sess[s].req, 204, RetOf(sess[s].contact), <<>>))
    /\ UNCHANGED nextId

ConcCreate ==
    \E s \in Sessions, u \in Users, body \in Bodies :
        conc_create_commit(s, u, body)

ConcUpdateSelect ==
    \E s \in Sessions, u \in Users, id \in ContactIds, body \in Bodies :
        conc_update_select(s, u, id, body)

ConcUpdateCommit == \E s \in Sessions : conc_update_commit(s)

ConcRefresh == \E s \in Sessions : conc_refresh(s)

ConcDeleteSelect ==
    \E s \in Sessions, u \in Users, id \in ContactIds :
        conc_delete_select(s, u, id)

ConcDeleteAllSelect ==
    \E s \in Sessions, u \in Users, id \in ContactIds :
        conc_delete_all_select(s, u, id)

ConcDeleteCommit == \E s \in Sessions : conc_delete_commit(s)

ConcNext ==
    \/ ConcCreate
    \/ ConcUpdateSelect
    \/ ConcUpdateCommit
    \/ ConcRefresh
    \/ ConcDeleteSelect
    \/ ConcDeleteAllSelect
    \/ ConcDeleteCommit

SpecConc == Init /\ [][ConcNext]_vars

\* ------------------------------------------------------------------ properties
Privileged == {"moderator", "admin"}

\* limit and offset values a caller of the repository may pass.
AnyPage == 0..(MaxContacts + 1)

OwnsRow(db, id, u) == \E i \in DOMAIN db : db[i].id = id /\ db[i].user = u

InSeq(x, rows) == \E i \in DOMAIN rows : rows[i] = x

\* C1: whatever was created, updated and deleted before, get_contacts called
\* for user u with any limit and offset returns only contacts whose owner is
\* u, and so does the list GET /contracts/ answers with.
C1_ListOwnOnlyOwner ==
    /\ \A u \in Users, limit \in AnyPage \cup Limits, offset \in AnyPage :
          LET rows == get_contacts(limit, offset, store, u)
          IN  \A i \in DOMAIN rows : rows[i].user = u
    /\ last.req.op = "get_contracts" =>
          \A i \in DOMAIN last.body : last.body[i].user = last.req.user

C1_Witness ==
    /\ last.req.op = "get_contracts"
    /\ Len(last.body) > 0
    /\ \E i \in DOMAIN store : store[i].user # last.req.user

\* C2: get_contact on an id that exists under another owner returns None, and
\* GET /contracts/{id} answers it exactly as it answers an id no row has:
\* 404 with no contact.
C2_NoExistenceLeak ==
    /\ \A u \in Users, id \in 1..(MaxContacts + 1) :
          ~OwnsRow(store, id, u) => get_contact(id, store, u) = None
    /\ (/\ last.req.op = "get_contact"
        /\ PathOk(last.req.id)
        /\ ~OwnsRow(store, last.req.id, last.req.user))
       => /\ last.status = 404
          /\ last.ret = "None"
          /\ last.body = <<>>

C2_Witness ==
    /\ last.req.op = "get_contact"
    /\ HasRow(store, last.req.id)
    /\ RowOf(store, last.req.id).user # last.req.user
    /\ last.status = 404

\* The contacts of owner u whose birthday lies in [today, today + days], in
\* table order.
InWindow(db, u, today, days) ==
    SelectSeq(db, LAMBDA c : /\ c.user = u
                             /\ today <= c.birthday
                             /\ c.birthday <= today + days)

\* C3: get_contact_with_upcoming_birthday returns the slice
\* [offset, offset + limit) of the owner's contacts whose birthday lies in
\* [today, today + days], in table order (so it is not empty when more than
\* offset contacts match).
C3_UpcomingSlice ==
    \A u \in Users, limit \in AnyPage \cup Limits, offset \in AnyPage,
       today \in Todays :
        get_contact_with_upcoming_birthday(10, limit, offset, store, u, today)
            = OffsetLimit(InWindow(store, u, today, 10), offset, limit)

\* C4: with today = Dec 27 and days = 10, GET /birthday/ returns every contact
\* of the caller whose birthday is Jan 3, whatever the birth year.
C4_YearBoundary ==
    (/\ last.req.op = "upcoming_birthday"
     /\ last.status = 200
     /\ last.req.today = Ordinal(2026, 12, 27)
     /\ last.req.days = 10
     /\ last.req.offset = 0)
    => \A i \in DOMAIN store :
          (/\ store[i].user = last.req.user
           /\ \E y \in 1990..2027 : store[i].birthday = Ordinal(y, 1, 3))
          => InSeq(store[i], last.body)

\* C5: when the row a session looked up is gone by the time the session
\* commits its update or delete, the table is left as it is and the function
\* does not return the contact as updated or deleted.
C5_RaceResolvesToNotFound ==
    [][\A s \in Sessions :
          (/\ conc_update_commit(s) \/ conc_delete_commit(s)
           /\ ~HasRow(store, sess[s].contact.id))
          => /\ store' = store
             /\ last'.ret # "contact"]_vars

\* C6: PUT /contracts/{id} for an (id, owner) pair no row has, the id existing
\* under another owner included, answers 404 from a None of update_contact and
\* leaves the whole table as it was.
C6_UpdateAbsentNoMutation ==
    [][(/\ last'.req.op = "update_contact"
        /\ PathOk(last'.req.id)
        /\ ~OwnsRow(store, last'.req.id, last'.req.user))
       => /\ store' = store
          /\ last'.status = 404
          /\ last'.ret = "None"
          /\ last'.body = <<>>]_vars

C6_Witness ==
    /\ last.req.op = "update_contact"
    /\ last.status = 404
    /\ HasRow(store, last.req.id)
    /\ RowOf(store, last.req.id).user # last.req.user

\* C7: right after create_contact, get_contact with the returned id and the
\* same owner returns the submitted fields with the assigned id, and no other
\* row of the table has that id.
C7_CreateThenGet ==
    last.req.op = "create_contact" =>
        LET created == last.body[1]
        IN  /\ get_contact(created.id, store, last.req.user)
                 = [id |-> created.id, user |-> last.req.user,
                    first_name |-> last.req.body.first_name,
                    birthday |-> last.req.body.birthday]
            /\ Cardinality({i \in DOMAIN store : store[i].id = created.id}) = 1

C7_Witness ==
    /\ last.req.op = "create_contact"
    /\ last.status = 201
    /\ Len(store) = 2

\* C8: for get_contact, update_contact, delete_contact and delete_all_contact,
\* a None from the repository is answered with 404.
C8_AbsentIsNotFound ==
    (/\ last.req.op \in {"get_contact", "update_contact", "delete_contact",
                         "delete_all_contact"}
     /\ last.ret = "None")
    => last.status = 404

\* C9: every step keeps each contact's id and owner, a contact enters the table
\* only by create_contact, owned by the caller and under an id no row has, and
\* no two rows share an id.
C9_OwnerAndIdFixed ==
    [][/\ \A i \in DOMAIN store' :
             \/ OwnsRow(store, store'[i].id, store'[i].user)
             \/ /\ last'.req.op = "create_contact"
                /\ store'[i].user = last'.req.user
                /\ ~HasRow(store, store'[i].id)
       /\ \A i, j \in DOMAIN store' :
             store'[i].id = store'[j].id => i = j]_vars

C9_Witness ==
    /\ last.req.op = "update_contact"
    /\ last.status = 200
    /\ \E i, j \in DOMAIN store : store[i].user # store[j].user

\* C10: GET /contracts/all and DELETE /contracts/all/{id} from a caller who is
\* neither moderator nor admin are answered 403 without the repository being
\* called or the table changing; and no request of an ordinary caller returns
\* or deletes a contact of another owner.
C10_UnscopedOnlyPrivileged ==
    [][/\ (/\ last'.req.op \in {"get_all_contracts", "delete_all_contact"}
           /\ role(last'.req.user) \notin Privileged)
          => /\ last'.status = 403
             /\ last'.ret = "not_called"
             /\ store' = store
       /\ (/\ last'.req.op # "none"
           /\ role(last'.req.user) \notin Privileged)
          => /\ \A i \in DOMAIN last'.body :
                   last'.body[i].user = last'.req.user
             /\ \A i \in DOMAIN store :
                   ~HasRow(store', store[i].id)
                       => store[i].user = last'.req.user]_vars

C10_Witness ==
    /\ last.req.op = "delete_all_contact"
    /\ role(last.req.user) \notin Privileged
    /\ last.status = 403
    /\ HasRow(store, last.req.id)
    /\ RowOf(store, last.req.id).user # last.req.user

====
